---- MODULE Spec2Model ----
(***************************************************************************)
(* A model of jdockerty/today: getCommitMessages (the commit-selection     *)
(* loop and the per-directory aggregation) with the helpers it calls.      *)
(* Text is a sequence of one-character strings, time an integer instant.   *)
(***************************************************************************)
EXTENDS Integers, Sequences, FiniteSets, TLC

(***************************************************************************)
(* Bounds of the model.                                                    *)
(***************************************************************************)
\* the most commits in all the repositories of one run together
MaxCommits == 3
\* the most directories in one run
MaxDirs == 2
\* the longest lookback (--since) of a run
MaxSince == 1
\* how often the wall clock advances during one run
MaxTicks == 1
\* the wall clock when the run starts
Now0 == 2

NL == "\n"
Slash == "/"
Dot == "."

(***************************************************************************)
(* Input pools.                                                            *)
(***************************************************************************)
\* author names: "Jo" and "AJ"
Names == { <<"J", "o">>, <<"A", "J">> }
\* --author values: none, "o" (inside one name), "j" (in no name: the case differs)
Authors == { <<>>, <<"o">>, <<"j">> }
\* author timestamps: before, at and after the starting wall clock
Times == { Now0 - 1, Now0, Now0 + 1 }
\* directory arguments: "a", "w/a", "." and "./"
Paths == { <<"a">>, <<"w", Slash, "a">>, <<Dot>>, <<Dot, Slash>> }
\* the working directory, "/h/t"
Cwd == <<Slash, "h", Slash, "t">>

\* the message bodies of the commits of a walk, by position:
\* "x\ny\nz", "u", "\nv", "t\n"
Body(i) ==
  CASE i = 1 -> <<"x", NL, "y", NL, "z">>
    [] i = 2 -> <<"u">>
    [] i = 3 -> <<NL, "v">>
    [] OTHER -> <<"t", NL>>

\* every commit of a run has its own message: "<path>:<body>"
MessageOf(p, i) == p \o <<":">> \o Body(i)

Signatures == [Name : Names, When : Times]

RECURSIVE SeqsUpTo(_, _)
SeqsUpTo(S, n) ==
  IF n = 0 THEN { <<>> }
  ELSE LET shorter == SeqsUpTo(S, n - 1)
       IN  shorter \cup { Append(s, x) : s \in { t \in shorter : Len(t) = n - 1 }, x \in S }

\* the walk of directory p whose commits carry the signatures sigs
WalkOf(p, sigs) ==
  [i \in 1..Len(sigs) |->
     [Author |-> sigs[i], Message |-> MessageOf(p, i)]]

\* a repository of at most n commits: Head() succeeds or not, and the commits
\* Log() walks from it
ReposOf(p, n) ==
  { [head |-> TRUE, walk |-> WalkOf(p, sigs)] : sigs \in SeqsUpTo(Signatures, n) }
    \cup { [head |-> FALSE, walk |-> <<>>] }

\* the maps from the paths D to repositories of at most n commits together
RECURSIVE ReposFor(_, _)
ReposFor(D, n) ==
  IF D = {} THEN { [k \in {} |-> <<>>] }
  ELSE LET d == CHOOSE x \in D : TRUE
       IN  UNION { { [x \in (DOMAIN m) \cup {d} |-> IF x = d THEN r ELSE m[x]] :
                       m \in ReposFor(D \ {d}, n - Len(r.walk)) } :
                   r \in ReposOf(d, n) }

DirToRepos ==
  UNION { ReposFor(D, MaxCommits) :
          D \in { E \in SUBSET Paths : Cardinality(E) >= 1 /\ Cardinality(E) <= MaxDirs } }

(***************************************************************************)
(* Library functions the code calls.                                       *)
(***************************************************************************)
\* strings.Contains(s, substr)
Contains(s, substr) ==
  \E i \in 0..(Len(s) - Len(substr)) : SubSeq(s, i + 1, i + Len(substr)) = substr

\* strings.Index(s, sep) for a one-character sep: 0-based, -1 when absent
RECURSIVE IndexFrom(_, _, _)
IndexFrom(s, sep, i) ==
  IF i > Len(s) THEN -1
  ELSE IF s[i] = sep THEN i - 1
  ELSE IndexFrom(s, sep, i + 1)

Index(s, sep) == IndexFrom(s, sep, 1)

\* strings.Cut(s, sep): (before, after, found)
Cut(s, sep) ==
  LET i == Index(s, sep)
  IN  IF i >= 0
      THEN [before |-> SubSeq(s, 1, i), after |-> SubSeq(s, i + 2, Len(s)), found |-> TRUE]
      ELSE [before |-> s, after |-> <<>>, found |-> FALSE]

\* filepath.Base: trailing slashes stripped, then the text after the last slash
RECURSIVE StripTrailingSlashes(_)
StripTrailingSlashes(p) ==
  IF Len(p) > 0 /\ p[Len(p)] = Slash
  THEN StripTrailingSlashes(SubSeq(p, 1, Len(p) - 1))
  ELSE p

RECURSIVE LastIndexFrom(_, _, _)
LastIndexFrom(s, sep, i) ==
  IF i < 1 THEN -1
  ELSE IF s[i] = sep THEN i - 1
  ELSE LastIndexFrom(s, sep, i - 1)

Base(path) ==
  IF path = <<>> THEN <<Dot>>
  ELSE LET p == StripTrailingSlashes(path)
           i == LastIndexFrom(p, Slash, Len(p))
           q == IF i >= 0 THEN SubSeq(p, i + 2, Len(p)) ELSE p
       IN  IF q = <<>> THEN <<Slash>> ELSE q

\* time.Time.After
After_OrEqual(t, u) == t >= u

After(t, u) == t > u

\* time.Time.Add(-d)
AddNeg(t, d) == t - d

(***************************************************************************)
(* Helpers of the program.                                                 *)
(***************************************************************************)
\* containsAuthor(c, author)
containsAuthor_Prefix(c, a) == SubSeq(c.Author.Name, 1, Len(a)) = a

containsAuthor_Any(c, a) == TRUE

containsAuthor(c, a) == Contains(c.Author.Name, a)

\* getBaseDirectoryName(p) when Getwd succeeds
getBaseDirectoryName(p) ==
  IF p = <<Dot, Slash>> \/ p = <<Dot>> THEN Base(Cwd) ELSE Base(p)

\* getBaseDirectoryName calls Getwd only for "./" and "."
CallsGetwd(p) == p = <<Dot, Slash>> \/ p = <<Dot>>

\* a Go map read: the zero value (a nil slice) when the key is absent
Get(m, k) == IF k \in DOMAIN m THEN m[k] ELSE <<>>

\* a Go map write
Put(m, k, v) == [x \in (DOMAIN m) \cup {k} |-> IF x = k THEN v ELSE m[x]]

\* make(map[string][]string)
EmptyMap == [k \in {} |-> <<>>]

\* the builtin append(slice, elem)
append_AtFront(s, x) == <<x>> \o s

append(s, x) == Append(s, x)

\* the message text the loop appends for a commit (lines 156-162)
Rendered_LastBreak(c, sh) ==
  LET i == LastIndexFrom(c.Message, NL, Len(c.Message))
  IN  IF sh /\ i >= 0 THEN SubSeq(c.Message, 1, i) ELSE c.Message

Rendered(c, sh) == IF sh THEN Cut(c.Message, NL).before ELSE c.Message

\* the zero value of the commit pointer before the first Next
NoCommit == [Author |-> [Name |-> <<>>, When |-> 0], Message |-> <<>>]

(***************************************************************************)
(* State.                                                                  *)
(***************************************************************************)
VARIABLES
  dirToRepo,      \* argument: path -> repository
  author,         \* argument: --author
  short,          \* argument: --short
  since,          \* argument: --since
  clock,          \* the wall clock, time.Now()
  ticks,          \* how often the clock has advanced
  pc,             \* "range" (top of the for-range), "loop" (the loop condition), "done"
  todo,           \* the keys of dirToRepo the range has not visited yet
  dir,            \* the range variable
  msgs,           \* the mapping being built
  now,            \* local of the current directory
  timeSince,      \* local of the current directory
  cIter,          \* how many commits the current iterator has returned
  currentCommit,  \* local of the current directory
  commitTime,     \* local of the current directory
  thresholds,     \* history: the timeSince computed for each visited directory
  ret,            \* the returned mapping (when not nil)
  retNil,         \* the returned mapping is nil
  err,            \* the returned error: "nil", "EOF", "NoHead", "Getwd"
  argv,           \* main: flag.Args(), the directory arguments in order
  disk,           \* main: what the file system holds at each argument
  mpc,            \* main: "lib" (no main: getCommitMessages called directly),
                  \*   "start", "validate", "open", "call", "called", "print", "exit"
  opened,         \* main: the paths getRepositories has tried to open, in order
  stdout,         \* main: what was printed to standard output, in order
  stderr,         \* main: what was printed to standard error, in order
  ptodo,          \* main: the keys of msgs the printing range has not visited yet
  exit,           \* main: the exit status, -1 while the program runs
  fpc,            \* full-walk variant: "off" (not run), "range", "each", "done"
  ftodo,          \* full-walk variant: directories its range has not visited yet
  fdir,           \* full-walk variant: the directory being walked
  fIter,          \* full-walk variant: how many commits ForEach has handed over
  fmsgs,          \* full-walk variant: its msgs map
  fret,           \* full-walk variant: the returned mapping (when not nil)
  fretNil,        \* full-walk variant: the returned mapping is nil
  ferr            \* full-walk variant: the returned error

vars == <<dirToRepo, author, short, since, clock, ticks, pc, todo, dir, msgs, now,
          timeSince, cIter, currentCommit, commitTime, thresholds, ret, retNil, err,
          argv, disk, mpc, opened, stdout, stderr, ptodo, exit,
          fpc, ftodo, fdir, fIter, fmsgs, fret, fretNil, ferr>>

fullVars == <<fpc, ftodo, fdir, fIter, fmsgs, fret, fretNil, ferr>>

mainVars == <<argv, disk, mpc, opened, stdout, stderr, ptodo, exit>>

args == <<dirToRepo, author, short, since>>

locals == <<now, timeSince, cIter, currentCommit, commitTime>>

Init ==
  /\ dirToRepo \in DirToRepos
  /\ author \in Authors
  /\ short \in BOOLEAN
  /\ since \in 0..MaxSince
  /\ clock = Now0
  /\ ticks = 0
  /\ pc = "range"
  /\ todo = DOMAIN dirToRepo
  /\ dir = <<>>
  /\ msgs = EmptyMap
  /\ now = 0
  /\ timeSince = 0
  /\ cIter = 0
  /\ currentCommit = NoCommit
  /\ commitTime = 0
  /\ thresholds = EmptyMap
  /\ ret = EmptyMap
  /\ retNil = TRUE
  /\ err = "nil"
  /\ argv = <<>>
  /\ disk = EmptyMap
  /\ mpc = "lib"
  /\ opened = <<>>
  /\ stdout = <<>>
  /\ stderr = <<>>
  /\ ptodo = {}
  /\ exit = -1
  /\ fpc = "off"
  /\ ftodo = {}
  /\ fdir = <<>>
  /\ fIter = 0
  /\ fmsgs = EmptyMap
  /\ fret = EmptyMap
  /\ fretNil = TRUE
  /\ ferr = "nil"

Fail_KeepsResults(e) ==
  /\ pc' = "done"
  /\ err' = e
  /\ ret' = msgs
  /\ retNil' = FALSE

Fail_AsEmptySuccess(e) ==
  /\ pc' = "done"
  /\ err' = "nil"
  /\ ret' = msgs
  /\ retNil' = FALSE

\* return nil, e
Fail(e) ==
  /\ pc' = "done"
  /\ err' = e
  /\ ret' = EmptyMap
  /\ retNil' = TRUE

\* the wall clock advances; the run reads it once per directory (line 123), so
\* only an advance between two reads can show
Tick ==
  /\ pc = "range"
  /\ dir # <<>>
  /\ todo # {}
  /\ ticks < MaxTicks
  /\ clock' = clock + 1
  /\ ticks' = ticks + 1
  /\ UNCHANGED <<args, pc, todo, dir, msgs, locals, thresholds, ret, retNil, err>>
  /\ UNCHANGED mainVars
  /\ UNCHANGED fullVars

\* lines 102-133: the range picks the next directory, in any order, and the
\* body runs up to the first test of the loop condition
BeginDir ==
  /\ pc = "range"
  /\ \E d \in todo, getwdOK \in BOOLEAN :
       LET repo == dirToRepo[d]
           sanitisedDir == getBaseDirectoryName(d)
           first == repo.walk[1]
       IN  /\ (getwdOK = FALSE) => CallsGetwd(d)
           /\ todo' = todo \ {d}
           /\ dir' = d
           /\ IF ~getwdOK
              THEN /\ Fail("Getwd")
                   /\ UNCHANGED <<msgs, locals, thresholds>>
              ELSE IF ~repo.head
              THEN /\ Fail("NoHead")
                   /\ msgs' = Put(msgs, sanitisedDir, <<>>)
                   /\ UNCHANGED <<locals, thresholds>>
              ELSE IF Len(repo.walk) = 0
              THEN /\ Fail("EOF")
                   /\ msgs' = Put(msgs, sanitisedDir, <<>>)
                   /\ now' = clock
                   /\ UNCHANGED <<timeSince, cIter, currentCommit, commitTime, thresholds>>
              ELSE /\ msgs' = Put(msgs, sanitisedDir, <<>>)
                   /\ now' = clock
                   /\ cIter' = 1
                   /\ currentCommit' = first
                   /\ commitTime' = first.Author.When
                   /\ timeSince' = AddNeg(clock, since)
                   /\ thresholds' = Put(thresholds, d, AddNeg(clock, since))
                   /\ pc' = "loop"
                   /\ UNCHANGED <<ret, retNil, err>>
  /\ UNCHANGED <<args, clock, ticks>>
  /\ UNCHANGED mainVars
  /\ UNCHANGED fullVars

\* line 139: the loop condition
LoopCond_NotBefore == ~After(timeSince, commitTime)

LoopCond == After(commitTime, timeSince)

LoopBody_NoLookahead ==
  /\ pc = "loop"
  /\ LoopCond
  /\ LET walk == dirToRepo[dir].walk
     IN  /\ IF author # <<>> /\ ~containsAuthor(currentCommit, author)
            THEN UNCHANGED msgs
            ELSE msgs' = Put(msgs, dir, append(Get(msgs, dir), Rendered(currentCommit, short)))
         /\ IF cIter >= Len(walk)
            THEN /\ pc' = "range"
                 /\ UNCHANGED <<cIter, currentCommit, commitTime>>
            ELSE /\ cIter' = cIter + 1
                 /\ currentCommit' = walk[cIter + 1]
                 /\ commitTime' = walk[cIter + 1].Author.When
                 /\ UNCHANGED pc
         /\ UNCHANGED <<now, timeSince, ret, retNil, err>>
  /\ UNCHANGED <<args, clock, ticks, todo, dir, thresholds>>
  /\ UNCHANGED mainVars
  /\ UNCHANGED fullVars

\* lines 139-166: one pass of the loop body
LoopBody ==
  /\ pc = "loop"
  /\ LoopCond
  /\ LET walk == dirToRepo[dir].walk
     IN  IF cIter >= Len(walk)
         THEN /\ Fail("EOF")
              /\ UNCHANGED <<msgs, locals>>
         ELSE LET nextCommit == walk[cIter + 1]
              IN  /\ cIter' = cIter + 1
                  /\ currentCommit' = nextCommit
                  /\ commitTime' = nextCommit.Author.When
                  /\ IF author # <<>> /\ ~containsAuthor(currentCommit, author)
                     THEN UNCHANGED msgs
                     ELSE msgs' = Put(msgs, dir, append(Get(msgs, dir), Rendered(currentCommit, short)))
                  /\ UNCHANGED <<now, timeSince, pc, ret, retNil, err>>
  /\ UNCHANGED <<args, clock, ticks, todo, dir, thresholds>>
  /\ UNCHANGED mainVars
  /\ UNCHANGED fullVars

\* line 139 false: the loop of this directory ends, back to the range
LoopExit ==
  /\ pc = "loop"
  /\ ~LoopCond
  /\ pc' = "range"
  /\ UNCHANGED <<args, clock, ticks, todo, dir, msgs, locals, thresholds, ret, retNil, err>>
  /\ UNCHANGED mainVars
  /\ UNCHANGED fullVars

\* line 169: return msgs, nil
Return ==
  /\ pc = "range"
  /\ todo = {}
  /\ pc' = "done"
  /\ ret' = msgs
  /\ retNil' = FALSE
  /\ err' = "nil"
  /\ UNCHANGED <<args, clock, ticks, todo, dir, msgs, locals, thresholds>>
  /\ UNCHANGED mainVars
  /\ UNCHANGED fullVars

Next == Tick \/ BeginDir \/ LoopBody \/ LoopExit \/ Return

Spec == Init /\ [][Next]_vars

(***************************************************************************)
(* The program: main, validatePaths and getRepositories.                   *)
(***************************************************************************)
MaxArgs == 2

MainMaxCommits == 2

\* a printed line or an error value: the format and the text put in it
Line(f, a) == [fmt |-> f, arg |-> a]

\* fmt.Errorf(format, p)
Errorf(f, p) == Line(f, p)

NilError == Line("nil", <<>>)

NoRepo == [head |-> FALSE, walk |-> <<>>]

\* what the file system can hold at path p: nothing, a directory without
\* .git, a .git that PlainOpen rejects, or a repository of at most n commits
EntriesOf(p, n) ==
  { [exists |-> FALSE, git |-> FALSE, opens |-> FALSE, repo |-> NoRepo],
    [exists |-> TRUE, git |-> FALSE, opens |-> FALSE, repo |-> NoRepo],
    [exists |-> TRUE, git |-> TRUE, opens |-> FALSE, repo |-> NoRepo] }
    \cup { [exists |-> TRUE, git |-> TRUE, opens |-> TRUE, repo |-> r] : r \in ReposOf(p, n) }

\* the file systems over the paths D holding at most n commits together
RECURSIVE DisksFor(_, _)
DisksFor(D, n) ==
  IF D = {} THEN { [k \in {} |-> <<>>] }
  ELSE LET d == CHOOSE x \in D : TRUE
       IN  UNION { { [x \in (DOMAIN m) \cup {d} |-> IF x = d THEN e ELSE m[x]] :
                       m \in DisksFor(D \ {d}, n - Len(e.repo.walk)) } :
                   e \in EntriesOf(d, n) }

\* flag.Args(): up to MaxArgs paths, in order, repetitions allowed
Argvs == SeqsUpTo(Paths, MaxArgs)

Range(s) == { s[i] : i \in 1..Len(s) }

\* os.Stat(p) returns no error
Stat(fs, p) == fs[p].exists

\* os.Stat(p + "/.git") returns no error
StatGit(fs, p) == fs[p].exists /\ fs[p].git

RECURSIVE validateFrom_OnlyFirst(_, _, _)
validateFrom_OnlyFirst(paths, fs, i) ==
  IF i > Len(paths) \/ i > 1 THEN NilError
  ELSE IF ~Stat(fs, paths[i]) THEN Errorf("expected directory, but got %s\n", paths[i])
  ELSE IF ~StatGit(fs, paths[i]) THEN Errorf("%s is not tracked by git", paths[i])
  ELSE validateFrom_OnlyFirst(paths, fs, i + 1)

RECURSIVE validateFrom_GitFirst(_, _, _)
validateFrom_GitFirst(paths, fs, i) ==
  IF i > Len(paths) THEN NilError
  ELSE IF ~StatGit(fs, paths[i]) THEN Errorf("%s is not tracked by git", paths[i])
  ELSE IF ~Stat(fs, paths[i]) THEN Errorf("expected directory, but got %s\n", paths[i])
  ELSE validateFrom_GitFirst(paths, fs, i + 1)

\* the range of validatePaths from position i on
RECURSIVE validateFrom(_, _, _)
validateFrom(paths, fs, i) ==
  IF i > Len(paths) THEN NilError
  ELSE IF ~Stat(fs, paths[i]) THEN Errorf("expected directory, but got %s\n", paths[i])
  ELSE IF ~StatGit(fs, paths[i]) THEN Errorf("%s is not tracked by git", paths[i])
  ELSE validateFrom(paths, fs, i + 1)

validatePaths(paths, fs) == validateFrom(paths, fs, 1)

\* git.PlainOpen(p) returns no error
PlainOpen(fs, p) == fs[p].opens

\* the position in dirs at which getRepositories stops: the first path that
\* does not open, Len(dirs) + 1 when all open
RECURSIVE openFrom(_, _, _)
openFrom(dirs, fs, i) ==
  IF i > Len(dirs) THEN i
  ELSE IF ~PlainOpen(fs, dirs[i]) THEN i
  ELSE openFrom(dirs, fs, i + 1)

\* os.Exit(2)
ExitInvalid == 2

ExitUsage_AsInvalid == ExitInvalid

\* os.Exit(1)
ExitUsage == 1

\* the status of a process whose main returns
ExitReturn == 0

MainInit ==
  /\ argv \in Argvs
  /\ disk \in DisksFor(Range(argv), MainMaxCommits)
  /\ author \in Authors
  /\ short \in BOOLEAN
  /\ since \in 0..MaxSince
  /\ clock = Now0
  /\ ticks = 0
  /\ mpc = "start"
  /\ opened = <<>>
  /\ stdout = <<>>
  /\ stderr = <<>>
  /\ ptodo = {}
  /\ exit = -1
  /\ fpc = "off"
  /\ ftodo = {}
  /\ fdir = <<>>
  /\ fIter = 0
  /\ fmsgs = EmptyMap
  /\ fret = EmptyMap
  /\ fretNil = TRUE
  /\ ferr = "nil"
  /\ dirToRepo = EmptyMap
  /\ pc = "idle"
  /\ todo = {}
  /\ dir = <<>>
  /\ msgs = EmptyMap
  /\ now = 0
  /\ timeSince = 0
  /\ cIter = 0
  /\ currentCommit = NoCommit
  /\ commitTime = 0
  /\ thresholds = EmptyMap
  /\ ret = EmptyMap
  /\ retNil = TRUE
  /\ err = "nil"

engine == <<dirToRepo, pc, todo, dir, msgs, locals, thresholds, ret, retNil, err>>

flags == <<author, short, since>>

\* lines 194-198: no directory argument
MainStart ==
  /\ mpc = "start"
  /\ IF Len(argv) = 0
     THEN /\ stderr' = stderr \o << Line("Missing mandatory argument: git_directory", <<>>),
                                    Line("Usage: %s [options] git_directory...\n", <<>>) >>
          /\ exit' = ExitUsage
          /\ mpc' = "exit"
     ELSE /\ mpc' = "validate"
          /\ UNCHANGED <<stderr, exit>>
  /\ UNCHANGED <<flags, clock, ticks, engine, argv, disk, opened, stdout, ptodo>>
  /\ UNCHANGED fullVars

\* lines 202-206: err := validatePaths(flag.Args())
MainValidate ==
  /\ mpc = "validate"
  /\ LET e == validatePaths(argv, disk)
     IN  IF e # NilError
         THEN /\ stdout' = Append(stdout, e)
              /\ exit' = ExitInvalid
              /\ mpc' = "exit"
         ELSE /\ mpc' = "open"
              /\ UNCHANGED <<stdout, exit>>
  /\ UNCHANGED <<flags, clock, ticks, engine, argv, disk, opened, stderr, ptodo>>
  /\ UNCHANGED fullVars

\* lines 208-214 and 62-76: repos, err := getRepositories(dirs)
MainGetRepositories ==
  /\ mpc = "open"
  /\ LET stop == openFrom(argv, disk, 1)
     IN  IF stop <= Len(argv)
         THEN /\ opened' = SubSeq(argv, 1, stop)
              /\ stdout' = stdout \o << Line("Unable to open local directory '%s': %s\n", argv[stop]),
                                        Line("%v", <<"PlainOpen">>) >>
              /\ exit' = ExitReturn
              /\ mpc' = "exit"
         ELSE /\ opened' = argv
              /\ mpc' = "call"
              /\ UNCHANGED <<stdout, exit>>
  /\ UNCHANGED <<flags, clock, ticks, engine, argv, disk, stderr, ptodo>>
  /\ UNCHANGED fullVars

\* lines 216-221 and 100: the map from the paths to the repositories is built
\* and getCommitMessages is entered
MainCall ==
  /\ mpc = "call"
  /\ dirToRepo' = [p \in Range(argv) |-> disk[p].repo]
  /\ todo' = Range(argv)
  /\ pc' = "range"
  /\ msgs' = EmptyMap
  /\ mpc' = "called"
  /\ UNCHANGED <<flags, clock, ticks, dir, locals, thresholds, ret, retNil, err>>
  /\ UNCHANGED fullVars
  /\ UNCHANGED <<argv, disk, opened, stdout, stderr, ptodo, exit>>

\* lines 221-227: getCommitMessages has returned
MainReturned ==
  /\ mpc = "called"
  /\ pc = "done"
  /\ IF err # "nil"
     THEN /\ stdout' = Append(stdout, Line("%v", <<err>>))
          /\ exit' = ExitReturn
          /\ mpc' = "exit"
          /\ UNCHANGED ptodo
     ELSE /\ ptodo' = DOMAIN ret
          /\ mpc' = "print"
          /\ UNCHANGED <<stdout, exit>>
  /\ UNCHANGED <<flags, clock, ticks, engine, argv, disk, opened, stderr>>
  /\ UNCHANGED fullVars

\* lines 227-239: one iteration of the range over msgs, in the order the map
\* yields its keys
MainPrint ==
  /\ mpc = "print"
  /\ \E k \in ptodo :
       LET commitMsgs == ret[k]
       IN  /\ stdout' = stdout \o << Line("%s\n", k) >>
                \o (IF Len(commitMsgs) = 0
                    THEN << Line("\tThere are no messages for this directory.\n", <<>>) >>
                    ELSE <<>>)
                \o [i \in 1..Len(commitMsgs) |-> Line("\t%s\n", commitMsgs[i])]
                \o << Line("\n", <<>>) >>
           /\ ptodo' = ptodo \ {k}
  /\ UNCHANGED <<flags, clock, ticks, engine, argv, disk, mpc, opened, stderr, exit>>
  /\ UNCHANGED fullVars

\* line 240: main returns
MainEnd ==
  /\ mpc = "print"
  /\ ptodo = {}
  /\ exit' = ExitReturn
  /\ mpc' = "exit"
  /\ UNCHANGED <<flags, clock, ticks, engine, argv, disk, opened, stdout, stderr, ptodo>>
  /\ UNCHANGED fullVars

MainNext ==
  \/ MainStart
  \/ MainValidate
  \/ MainGetRepositories
  \/ MainCall
  \/ Tick
  \/ BeginDir
  \/ LoopBody
  \/ LoopExit
  \/ Return
  \/ MainReturned
  \/ MainPrint
  \/ MainEnd

MainSpec == MainInit /\ [][MainNext]_vars

(***************************************************************************)
(* The two earlier variants of getCommitMessages, run one after the other  *)
(* on the same repositories: the full walk (cIter.ForEach), then the Next  *)
(* loop. Neither has an author filter; both store under msgs[dir].         *)
(***************************************************************************)
VariantInit ==
  /\ dirToRepo \in DirToRepos
  /\ author = <<>>
  /\ short \in BOOLEAN
  /\ since \in 0..MaxSince
  /\ clock = Now0
  /\ ticks = 0
  /\ fpc = "range"
  /\ ftodo = DOMAIN dirToRepo
  /\ fdir = <<>>
  /\ fIter = 0
  /\ fmsgs = EmptyMap
  /\ fret = EmptyMap
  /\ fretNil = TRUE
  /\ ferr = "nil"
  /\ pc = "range1"
  /\ todo = DOMAIN dirToRepo
  /\ dir = <<>>
  /\ msgs = EmptyMap
  /\ now = 0
  /\ timeSince = 0
  /\ cIter = 0
  /\ currentCommit = NoCommit
  /\ commitTime = 0
  /\ thresholds = EmptyMap
  /\ ret = EmptyMap
  /\ retNil = TRUE
  /\ err = "nil"
  /\ argv = <<>>
  /\ disk = EmptyMap
  /\ mpc = "lib"
  /\ opened = <<>>
  /\ stdout = <<>>
  /\ stderr = <<>>
  /\ ptodo = {}
  /\ exit = -1

nextVars == <<pc, todo, dir, msgs, locals, thresholds, ret, retNil, err>>

\* the wall clock advances while one of the variants runs
VariantTick ==
  /\ fpc # "done" \/ pc # "done"
  /\ ticks < MaxTicks
  /\ clock' = clock + 1
  /\ ticks' = ticks + 1
  /\ UNCHANGED <<args, nextVars, mainVars, fullVars>>

\* full walk, lines 77-91: the next directory of the range, up to the ForEach
FullBeginDir ==
  /\ fpc = "range"
  /\ \E d \in ftodo :
       /\ ftodo' = ftodo \ {d}
       /\ fdir' = d
       /\ fmsgs' = Put(fmsgs, d, <<>>)
       /\ IF ~dirToRepo[d].head
          THEN /\ fpc' = "done"
               /\ ferr' = "NoHead"
               /\ fret' = EmptyMap
               /\ fretNil' = TRUE
               /\ UNCHANGED fIter
          ELSE /\ fIter' = 0
               /\ fpc' = "each"
               /\ UNCHANGED <<fret, fretNil, ferr>>
  /\ UNCHANGED <<args, clock, ticks, nextVars, mainVars>>

ForEachKeeps_All(c, t) == TRUE

\* full walk, line 105: if commitTime.After(timeSince)
ForEachKeeps(c, t) == After(c.Author.When, t)

\* full walk, lines 96-117: the callback of ForEach on the next commit
ForEachCommit ==
  /\ fpc = "each"
  /\ fIter < Len(dirToRepo[fdir].walk)
  /\ LET c == dirToRepo[fdir].walk[fIter + 1]
         fnow == clock
         ftimeSince == AddNeg(fnow, since)
     IN  /\ IF ForEachKeeps(c, ftimeSince)
            THEN fmsgs' = Put(fmsgs, fdir, append(Get(fmsgs, fdir), Rendered(c, short)))
            ELSE UNCHANGED fmsgs
         /\ fIter' = fIter + 1
  /\ UNCHANGED <<fpc, ftodo, fdir, fret, fretNil, ferr>>
  /\ UNCHANGED <<args, clock, ticks, nextVars, mainVars>>

\* full walk, lines 117-122: ForEach has handed over every commit
ForEachEnd ==
  /\ fpc = "each"
  /\ fIter = Len(dirToRepo[fdir].walk)
  /\ fpc' = "range"
  /\ UNCHANGED <<ftodo, fdir, fIter, fmsgs, fret, fretNil, ferr>>
  /\ UNCHANGED <<args, clock, ticks, nextVars, mainVars>>

\* full walk, line 124: return msgs, nil
FullReturn ==
  /\ fpc = "range"
  /\ ftodo = {}
  /\ fpc' = "done"
  /\ fret' = fmsgs
  /\ fretNil' = FALSE
  /\ ferr' = "nil"
  /\ UNCHANGED <<ftodo, fdir, fIter, fmsgs>>
  /\ UNCHANGED <<args, clock, ticks, nextVars, mainVars>>

\* Next loop, lines 76-100: the next directory of the range, up to the loop
NextBeginDir ==
  /\ fpc = "done"
  /\ pc = "range1"
  /\ \E d \in todo :
       LET repo == dirToRepo[d]
           first == repo.walk[1]
       IN  /\ todo' = todo \ {d}
           /\ dir' = d
           /\ msgs' = Put(msgs, d, <<>>)
           /\ IF ~repo.head
              THEN /\ Fail("NoHead")
                   /\ UNCHANGED <<locals, thresholds>>
              ELSE IF Len(repo.walk) = 0
              THEN /\ Fail("EOF")
                   /\ now' = clock
                   /\ UNCHANGED <<timeSince, cIter, currentCommit, commitTime, thresholds>>
              ELSE /\ now' = clock
                   /\ cIter' = 1
                   /\ currentCommit' = first
                   /\ commitTime' = first.Author.When
                   /\ timeSince' = AddNeg(clock, since)
                   /\ thresholds' = Put(thresholds, d, AddNeg(clock, since))
                   /\ pc' = "loop1"
                   /\ UNCHANGED <<ret, retNil, err>>
  /\ UNCHANGED <<args, clock, ticks, mainVars, fullVars>>

\* Next loop, lines 106-122: one pass of the loop body, append then Next
NextLoopBody ==
  /\ pc = "loop1"
  /\ LoopCond
  /\ LET walk == dirToRepo[dir].walk
     IN  /\ msgs' = Put(msgs, dir, append(Get(msgs, dir), Rendered(currentCommit, short)))
         /\ IF cIter >= Len(walk)
            THEN /\ Fail("EOF")
                 /\ UNCHANGED locals
            ELSE /\ cIter' = cIter + 1
                 /\ currentCommit' = walk[cIter + 1]
                 /\ commitTime' = walk[cIter + 1].Author.When
                 /\ UNCHANGED <<now, timeSince, pc, ret, retNil, err>>
  /\ UNCHANGED <<args, clock, ticks, todo, dir, thresholds, mainVars, fullVars>>

\* Next loop, line 106 false: back to the range
NextLoopExit ==
  /\ pc = "loop1"
  /\ ~LoopCond
  /\ pc' = "range1"
  /\ UNCHANGED <<args, clock, ticks, todo, dir, msgs, locals, thresholds, ret, retNil, err>>
  /\ UNCHANGED <<mainVars, fullVars>>

\* Next loop, line 125: return msgs, nil
NextReturn ==
  /\ pc = "range1"
  /\ todo = {}
  /\ pc' = "done"
  /\ ret' = msgs
  /\ retNil' = FALSE
  /\ err' = "nil"
  /\ UNCHANGED <<args, clock, ticks, todo, dir, msgs, locals, thresholds>>
  /\ UNCHANGED <<mainVars, fullVars>>

VariantNext ==
  \/ VariantTick
  \/ FullBeginDir
  \/ ForEachCommit
  \/ ForEachEnd
  \/ FullReturn
  \/ NextBeginDir
  \/ NextLoopBody
  \/ NextLoopExit
  \/ NextReturn

VariantSpec == VariantInit /\ [][VariantNext]_vars

(***************************************************************************)
(* What the claims speak of, stated without the operators of the model.    *)
(***************************************************************************)
Dirs == DOMAIN dirToRepo

WalkIn(d) == dirToRepo[d].walk

\* the run returned a mapping and no error
Succeeded == pc = "done" /\ err = "nil" /\ ~retNil

\* the loop of the directory dir has run to its end (its condition was false)
LoopEnded == dir # <<>> /\ err = "nil" /\ pc \in {"range", "done"}

\* the first position of w whose commit is not strictly after t, Len(w)+1 if none
StopIndex(w, t) ==
  LET S == { i \in 1..Len(w) : w[i].Author.When <= t }
  IN  IF S = {} THEN Len(w) + 1 ELSE CHOOSE i \in S : \A j \in S : i <= j

\* sub occurs in s
Occurs(sub, s) == \E i \in 0..Len(s), j \in 0..Len(s) : i <= j /\ SubSeq(s, i + 1, j) = sub

\* the commit passes the author filter a
Passes(c, a) == a = <<>> \/ Occurs(a, c.Author.Name)

\* the text of s before its first line break, s when it has none
FirstLine(s) ==
  LET k == CHOOSE n \in 0..Len(s) :
             /\ \A i \in 1..n : s[i] # NL
             /\ n = Len(s) \/ s[n + 1] = NL
  IN  [i \in 1..k |-> s[i]]

\* what a selected commit contributes to the result
TextOf(c, sh) == IF sh THEN FirstLine(c.Message) ELSE c.Message

\* the positions below stop of w, in walk order, that pass the filter a
RECURSIVE Picked(_, _, _, _)
Picked(w, a, stop, i) ==
  IF i >= stop THEN <<>>
  ELSE (IF Passes(w[i], a) THEN <<i>> ELSE <<>>) \o Picked(w, a, stop, i + 1)

\* the selection of directory d under threshold t: the messages of the commits
\* before the first one not strictly after t that pass the filter
Selection(d, t) ==
  LET w == WalkIn(d)
      idx == Picked(w, author, StopIndex(w, t), 1)
  IN  [k \in 1..Len(idx) |-> TextOf(w[idx[k]], short)]

NonIncreasing(w) == \A i \in 1..(Len(w) - 1) : w[i].Author.When >= w[i + 1].Author.When

NewerThan(w, t) == { i \in 1..Len(w) : w[i].Author.When > t }

\* C1: for every non-empty walk with non-increasing timestamps and no author
\* filter, the run returns without error and the directory's result is as long
\* as the number of commits strictly after the threshold, also when every
\* commit of the walk is after the threshold.
C1_LengthIsNewerCount ==
  ( /\ pc = "done"
    /\ author = <<>>
    /\ \A d \in Dirs : /\ dirToRepo[d].head
                       /\ Len(WalkIn(d)) > 0
                       /\ NonIncreasing(WalkIn(d))
    /\ err # "Getwd" )
  => /\ Succeeded
     /\ \A d \in Dirs : Len(Get(ret, d)) = Cardinality(NewerThan(WalkIn(d), thresholds[d]))

\* C3: after a successful run the keys of the returned mapping are exactly the
\* base names of the requested paths, one entry per directory.
C3_KeysAreBaseNames ==
  Succeeded => DOMAIN ret = { getBaseDirectoryName(d) : d \in Dirs }

\* C4: after a successful run the sequence stored under the base name of each
\* requested path is exactly the selection from that path's own walk.
C4_LabelHoldsSelection ==
  Succeeded =>
    \A d \in Dirs : Get(ret, getBaseDirectoryName(d)) = Selection(d, thresholds[d])

\* the loop of the directory dir has started: its threshold is computed
LoopStarted == dir \in DOMAIN thresholds

\* the elements of a sequence
Elements(q) == { q[k] : k \in 1..Len(q) }

\* the position in w of the commit whose text is x
PositionOf(w, x) == CHOOSE i \in 1..Len(w) : TextOf(w[i], short) = x

\* the commits of one walk have different texts, so a text names its commit
DistinctTexts(w) ==
  \A i, j \in 1..Len(w) : TextOf(w[i], short) = TextOf(w[j], short) => i = j

\* no other requested directory is labelled with the path d
NotALabel(d) == \A e \in Dirs \ {d} : getBaseDirectoryName(e) # d

\* C2: the selection of a directory stops at the first commit, in walk order,
\* that is not strictly after the threshold (equal also stops it): the iterator
\* is never advanced past that commit, and neither it nor any later commit is in
\* the directory's sequence, even a later commit that is after the threshold.
C2_StopsAtFirstOld ==
  LoopStarted =>
    LET w == WalkIn(dir)
        stop == StopIndex(w, thresholds[dir])
    IN  /\ DistinctTexts(w)
        /\ cIter <= stop
        /\ cIter <= Len(w)
        /\ LoopEnded => cIter = stop /\ currentCommit = w[stop]
        /\ \A j \in stop..Len(w) : TextOf(w[j], short) \notin Elements(Get(msgs, dir))

\* C2 witness: the loop ended at a commit dated exactly at the threshold, after
\* selecting one, and a commit behind it is strictly after the threshold.
C2_Witness ==
  /\ LoopEnded
  /\ LET w == WalkIn(dir)
         stop == StopIndex(w, thresholds[dir])
     IN  /\ stop <= Len(w)
         /\ w[stop].Author.When = thresholds[dir]
         /\ Len(Get(msgs, dir)) > 0
         /\ \E j \in (stop + 1)..Len(w) : w[j].Author.When > thresholds[dir]

\* C5: when the loop of a directory ends, its sequence is exactly the texts, in
\* walk order, of the commits before the first one not after the threshold whose
\* author name contains the filter (case-sensitive); a commit that does not
\* match is skipped and the walk goes on; an empty filter excludes nothing. The
\* returned mapping holds that sequence under the directory's path, unless the
\* path is the label of another requested directory.
C5_AuthorFilter ==
  /\ LoopEnded => Get(msgs, dir) = Selection(dir, thresholds[dir])
  /\ Succeeded => \A d \in Dirs : NotALabel(d) => Get(ret, d) = Selection(d, thresholds[d])

\* C5 witness: a run returned, under a filter, a sequence with a commit that
\* comes after a skipped commit of another author.
C5_Witness ==
  /\ Succeeded
  /\ author # <<>>
  /\ \E d \in Dirs :
       LET w == WalkIn(d)
       IN  \E i, j \in 1..Len(w) :
             /\ i < j
             /\ ~Occurs(author, w[i].Author.Name)
             /\ TextOf(w[j], short) \in Elements(Get(ret, d))

\* the positions of the walk of dir whose author name contains the filter
Matching(w) == { i \in 1..Len(w) : Occurs(author, w[i].Author.Name) }

\* C6: when the filter is a substring of the author name of exactly one commit
\* of the walk, the directory's sequence holds nothing but that commit's text:
\* it is that one text when the commit lies before the first commit not after
\* the threshold, and empty otherwise.
C6_SingleMatch ==
  (LoopEnded /\ Cardinality(Matching(WalkIn(dir))) = 1) =>
    LET w == WalkIn(dir)
        i == CHOOSE x \in Matching(w) : TRUE
    IN  Get(msgs, dir) =
          IF i < StopIndex(w, thresholds[dir]) THEN <<TextOf(w[i], short)>> ELSE <<>>

\* C6 witness: one commit matches, it is the second of two commits after the
\* threshold, and the sequence is exactly its text.
C6_Witness ==
  /\ LoopEnded
  /\ author # <<>>
  /\ LET w == WalkIn(dir)
     IN  /\ Matching(w) = {2}
         /\ StopIndex(w, thresholds[dir]) = 3
         /\ Get(msgs, dir) = <<TextOf(w[2], short)>>

\* C7: when the filter matches the author name of no commit of a non-empty
\* walk, the run returns a nil error and an empty sequence for the directory,
\* whose key is present.
C7_NoMatchNoError ==
  ( /\ pc = "done"
    /\ err # "Getwd"
    /\ \A d \in Dirs : /\ dirToRepo[d].head
                       /\ Len(WalkIn(d)) > 0
                       /\ Matching(WalkIn(d)) = {} )
  => /\ Succeeded
     /\ \A d \in Dirs : /\ getBaseDirectoryName(d) \in DOMAIN ret
                        /\ Get(ret, d) = <<>>

C9_ElementText ==
  /\ \A k \in DOMAIN msgs : \A x \in Elements(msgs[k]) :
       \E d \in Dirs : \E i \in 1..Len(WalkIn(d)) :
         x = (IF short THEN FirstLine(WalkIn(d)[i].Message) ELSE WalkIn(d)[i].Message)
  /\ \A x \in Elements(Get(msgs, dir)) : short => NL \notin Elements(x)

\* C9 witness: with short, a sequence holds the first line of a message that
\* has more lines and a message without a line break, unchanged.
C9_Witness ==
  /\ LoopEnded
  /\ short
  /\ LET w == WalkIn(dir)
         m == Get(msgs, dir)
     IN  /\ Len(m) = 2
         /\ m[1] # w[1].Message
         /\ m[2] = w[2].Message

\* C10: a directory's sequence keeps the walk order: its elements are texts of
\* commits of the walk at strictly increasing positions (most recent first, no
\* reordering, no duplicate), and when the head commit is after the threshold
\* and passes the filter, element 0 is the head commit's text.
C10_WalkOrder ==
  LoopStarted =>
    LET w == WalkIn(dir)
        m == Get(msgs, dir)
    IN  /\ \A k \in 1..Len(m) : \E i \in 1..Len(w) : TextOf(w[i], short) = m[k]
        /\ \A k, l \in 1..Len(m) : k < l => PositionOf(w, m[k]) < PositionOf(w, m[l])
        /\ ( /\ LoopEnded
             /\ w[1].Author.When > thresholds[dir]
             /\ Passes(w[1], author) )
           => /\ Len(m) >= 1
              /\ m[1] = TextOf(w[1], short)

\* C10 witness: the loop ended with two selected commits, the head first.
C10_Witness ==
  /\ LoopEnded
  /\ LET w == WalkIn(dir)
         m == Get(msgs, dir)
     IN  /\ Len(m) = 2
         /\ m[1] = TextOf(w[1], short)
         /\ m[2] = TextOf(w[2], short)

\* C11: within one run every directory is compared against the same threshold:
\* the thresholds used for any two directories of the run are equal, also when
\* the clock advances while the run is in progress.
C11_SingleThreshold ==
  \A d \in DOMAIN thresholds, e \in DOMAIN thresholds : thresholds[d] = thresholds[e]

(***************************************************************************)
(* What the claims about the program speak of.                             *)
(***************************************************************************)
Args == { argv[i] : i \in 1..Len(argv) }

\* every argument exists and holds a .git
ValidArgs == \A p \in Args : disk[p].exists /\ disk[p].git

\* some argument's repository cannot be opened
OpenFails == \E p \in Args : ~disk[p].opens

\* getCommitMessages returned an error
WalkFailed == pc = "done" /\ err # "nil"

Exited == mpc = "exit"

\* the positions of stdout that report on a directory: a label, a message, or
\* the no-messages line
DirLines ==
  { i \in 1..Len(stdout) :
      stdout[i].fmt \in { "%s\n", "\t%s\n", "\tThere are no messages for this directory.\n" } }

\* C12: a failure to open a repository, to obtain a head or a first commit, or
\* to advance a walk fails the whole run: getCommitMessages returns the error
\* and a nil mapping whatever it gathered for earlier directories, it is not
\* entered at all when a repository does not open, and main then prints the
\* error last and no line that reports on a directory.
C12_FailureFailsWholeRun ==
  /\ WalkFailed => retNil /\ ret = EmptyMap
  /\ (pc = "done" /\ \E d \in Dirs : ~dirToRepo[d].head \/ WalkIn(d) = <<>>) => WalkFailed
  /\ (Len(argv) > 0 /\ ValidArgs /\ OpenFails) => pc = "idle"
  /\ (Exited /\ Len(argv) > 0 /\ ValidArgs /\ (OpenFails \/ WalkFailed)) =>
       /\ retNil
       /\ DirLines = {}
       /\ Len(stdout) > 0
       /\ stdout[Len(stdout)].fmt = "%v"
       /\ WalkFailed => stdout[Len(stdout)].arg = <<err>>

\* C12 witness: the program ended after the second directory failed while a
\* message had been gathered for the first.
C12_Witness ==
  /\ Exited
  /\ WalkFailed
  /\ \E d \in Dirs \ {dir} : Len(Get(msgs, d)) > 0

\* C12 witness of the other failure: a repository did not open after another
\* one had been opened.
C12_OpenWitness ==
  /\ Exited
  /\ ValidArgs
  /\ OpenFails
  /\ Len(opened) = 2

\* the positions of argv whose path is missing or holds no .git
Offending == { i \in 1..Len(argv) : ~disk[argv[i]].exists \/ ~disk[argv[i]].git }

FirstOffending == CHOOSE i \in Offending : \A j \in Offending : i <= j

\* C13: validation comes first and covers every path: nothing is opened and
\* getCommitMessages is not entered while main has not validated, and when any
\* path is invalid, wherever it stands among the arguments, the program ends
\* with a non-zero status with no repository opened, no commit walked and no
\* line reporting on a directory printed.
C13_ValidationFirst ==
  /\ mpc \in {"start", "validate"} => opened = <<>> /\ pc = "idle"
  /\ Offending # {} =>
       /\ opened = <<>>
       /\ pc = "idle"
       /\ thresholds = EmptyMap
       /\ cIter = 0
       /\ DirLines = {}
       /\ mpc \in {"start", "validate", "exit"}
       /\ Exited => exit \notin {-1, 0}

\* C13 witness: the program ended on an invalid second argument that follows
\* a valid one whose repository opens and holds a commit.
C13_Witness ==
  /\ Exited
  /\ Len(argv) = 2
  /\ Offending = {2}
  /\ disk[argv[1]].opens
  /\ Len(disk[argv[1]].repo.walk) > 0

\* C14: validatePaths returns nil exactly when every path exists and holds a
\* .git; otherwise its error is about the first offending path in argument
\* order, 'expected directory' when that path does not exist and 'not tracked
\* by git' when it exists without .git; main prints that error and nothing
\* else on stdout.
C14_FirstOffendingPath ==
  LET e == validatePaths(argv, disk)
  IN  /\ e = NilError <=> Offending = {}
      /\ Offending # {} =>
           LET p == argv[FirstOffending]
           IN  /\ e.arg = p
               /\ ~disk[p].exists => e.fmt = "expected directory, but got %s\n"
               /\ disk[p].exists => e.fmt = "%s is not tracked by git"
               /\ Exited => stdout = <<e>>

\* C14 witness: validatePaths has run on an untracked directory followed by a
\* missing one, and the error names the first.
C14_Witness ==
  /\ Exited
  /\ Len(argv) = 2
  /\ argv[1] # argv[2]
  /\ disk[argv[1]].exists
  /\ ~disk[argv[1]].git
  /\ ~disk[argv[2]].exists
  /\ stdout = << Line("%s is not tracked by git", argv[1]) >>

\* C15: when the arguments are valid and a repository does not open or
\* getCommitMessages returns an error, the program prints the error and ends
\* with a non-zero exit status.
C15_EngineFailureNonZero ==
  (Exited /\ Len(argv) > 0 /\ ValidArgs /\ (OpenFails \/ WalkFailed)) =>
    /\ Len(stdout) > 0
    /\ stdout[Len(stdout)].fmt = "%v"
    /\ exit # 0

\* C16: without a directory argument the program prints the usage to stderr
\* and ends with status 1, nothing printed on stdout, nothing validated or
\* opened; with a missing or untracked directory it ends with a status that is
\* neither 0 nor 1 after printing a diagnostic that names the first offending
\* path.
C16_UsageAndInvalidStatus ==
  /\ (Exited /\ Len(argv) = 0) =>
       /\ exit = 1
       /\ \E i \in 1..Len(stderr) : stderr[i].fmt = "Usage: %s [options] git_directory...\n"
       /\ stdout = <<>>
       /\ opened = <<>>
       /\ pc = "idle"
  /\ (Exited /\ Offending # {}) =>
       /\ exit \notin {-1, 0, 1}
       /\ Len(stdout) = 1
       /\ stdout[1].arg = argv[FirstOffending]
       /\ stdout[1].fmt # "%v"
       /\ stderr = <<>>

\* C16 witness: the program ended on an argument that does not exist.
C16_Witness ==
  /\ Exited
  /\ Len(argv) = 1
  /\ ~disk[argv[1]].exists
  /\ exit = 2

\* C16 witness of the other case: the program ended for want of arguments.
C16_UsageWitness ==
  /\ Exited
  /\ Len(argv) = 0
  /\ Len(stderr) = 2

\* the positions of stdout that print the label L
HeadingsOf(L) == { i \in 1..Len(stdout) : stdout[i] = Line("%s\n", L) }

\* C17: after a successful run, for each requested directory stdout holds its
\* label exactly once, followed by the no-messages line when and only when no
\* commit of the directory was selected, and otherwise by the selected messages
\* in walk order; so a directory with a selected commit is never reported as
\* having no messages.
C17_LabelThenItsMessages ==
  (Exited /\ Succeeded) =>
    \A d \in Dirs :
      LET L == getBaseDirectoryName(d)
          sel == Selection(d, thresholds[d])
      IN  /\ Cardinality(HeadingsOf(L)) = 1
          /\ LET i == CHOOSE h \in HeadingsOf(L) : TRUE
             IN  IF sel = <<>>
                 THEN stdout[i + 1].fmt = "\tThere are no messages for this directory.\n"
                 ELSE /\ Len(stdout) >= i + Len(sel)
                      /\ \A k \in 1..Len(sel) : stdout[i + k] = Line("\t%s\n", sel[k])

\* C18: the result returned for a directory is a function of that directory's
\* own walk, the criteria and its threshold, whatever other directories are
\* requested and in whatever order the range over the map visits them: after
\* a successful run the sequence returned for each requested path is the
\* selection from that path's walk.
C18_OwnWalkOnly ==
  Succeeded => \A d \in Dirs : Get(ret, d) = Selection(d, thresholds[d])

\* one input for two runs: "a" holds a commit inside the window and one at the
\* threshold, "w/a" holds one commit at the threshold
C18_Input ==
  /\ dirToRepo =
       [ d \in { <<"a">>, <<"w", Slash, "a">> } |->
           [ head |-> TRUE,
             walk |-> IF d = <<"a">>
                      THEN WalkOf(d, << [Name |-> <<"J", "o">>, When |-> Now0],
                                        [Name |-> <<"J", "o">>, When |-> Now0 - 1] >>)
                      ELSE WalkOf(d, << [Name |-> <<"J", "o">>, When |-> Now0 - 1] >>) ] ]
  /\ author = <<>>
  /\ short = FALSE
  /\ since = 1
  /\ ticks = 0

\* C18, the run in the other order: over the paths "a" and "w/a", the range
\* having visited "w/a" first, the sequence returned for "a" is its selection
\* and holds a message.
C18_OtherOrder ==
  /\ Succeeded
  /\ C18_Input
  /\ dir = <<"a">>
  /\ Get(ret, <<"a">>) = Selection(<<"a">>, thresholds[<<"a">>])
  /\ Len(Get(ret, <<"a">>)) > 0

\* C18, the run in the failing order: the same paths, "w/a" visited last, a
\* commit of "a" selected and nothing returned for "a".
C18_FailingOrder ==
  /\ Succeeded
  /\ C18_Input
  /\ dir = <<"w", Slash, "a">>
  /\ Len(Selection(<<"a">>, thresholds[<<"a">>])) > 0
  /\ Get(ret, <<"a">>) = <<>>

\* C19: a repository without head reference, or whose walk yields no commit,
\* makes getCommitMessages fail for the whole run, with the head error or the
\* end-of-walk error and a nil mapping, and is never given an empty sequence in
\* a returned mapping.
C19_NoHistoryIsError ==
  /\ (pc = "done" /\ dir # <<>> /\ err # "Getwd") =>
       /\ ~dirToRepo[dir].head => err = "NoHead" /\ retNil /\ ret = EmptyMap
       /\ (dirToRepo[dir].head /\ WalkIn(dir) = <<>>) => err = "EOF" /\ retNil /\ ret = EmptyMap
  /\ Succeeded => \A d \in Dirs : dirToRepo[d].head /\ WalkIn(d) # <<>>

\* C19 witness: the run ended on a second directory that has a head reference
\* and no commit, after a first directory was walked.
C19_Witness ==
  /\ pc = "done"
  /\ err = "EOF"
  /\ dirToRepo[dir].head
  /\ WalkIn(dir) = <<>>
  /\ thresholds # EmptyMap

\* C19 witness of the other case: the run ended on a directory without head.
C19_NoHeadWitness ==
  /\ pc = "done"
  /\ err = "NoHead"
  /\ ~dirToRepo[dir].head

\* the number of leading commits of the current directory's walk that are
\* strictly after its threshold
InWindow == StopIndex(WalkIn(dir), thresholds[dir]) - 1

\* C20, in states: the loop never fetches beyond the first commit that is not
\* after the threshold; it ends normally having fetched exactly k + 1 commits,
\* k the number of leading commits after the threshold, which requires the walk
\* to hold a (k+1)-th commit; when the walk holds only those k the run ends
\* with the end-of-walk error and a nil mapping.
C20_FetchedCount ==
  LoopStarted =>
    LET w == WalkIn(dir)
        k == InWindow
    IN  /\ cIter >= 1
        /\ cIter <= k + 1
        /\ cIter <= Len(w)
        /\ LoopEnded => cIter = k + 1
        /\ (pc = "done" /\ err = "EOF") => k = Len(w) /\ cIter = k /\ retNil
        /\ (pc # "loop" /\ k = Len(w)) => pc = "done" /\ err = "EOF"

\* C20, in steps: every pass of the loop that stays in the loop fetches exactly
\* one more commit of the same finite walk, so the loop ends after at most as
\* many passes as the walk has commits.
C20_OneFetchPerPass ==
  (pc = "loop" /\ pc' = "loop") =>
     /\ dir' = dir
     /\ cIter' = cIter + 1
     /\ cIter' <= Len(WalkIn(dir))

\* C20: the loop reads one commit ahead and terminates on a finite walk.
C20_LookAhead == [](C20_FetchedCount) /\ [][C20_OneFetchPerPass]_vars

\* C20 witness: the loop ended normally on a walk of three commits whose first
\* two are after the threshold, having fetched the third.
C20_Witness ==
  /\ LoopStarted
  /\ LoopEnded
  /\ Len(WalkIn(dir)) = 3
  /\ InWindow = 2
  /\ cIter = 3

\* C20 witness of the other case: both commits of a walk are after the
\* threshold and the third fetch ended the run.
C20_EndOfWalkWitness ==
  /\ LoopStarted
  /\ pc = "done"
  /\ err = "EOF"
  /\ Len(WalkIn(dir)) = 2
  /\ cIter = 2

\* both variants have returned
BothDone == fpc = "done" /\ pc = "done"

\* both variants returned a mapping
BothSucceeded == BothDone /\ ~retNil /\ ~fretNil /\ err = "nil" /\ ferr = "nil"

\* the walk holds a commit that is not strictly after t
HasOld(w, t) == \E i \in 1..Len(w) : w[i].Author.When <= t

\* the texts of all commits of w strictly after t, in walk order, from
\* position i on
RECURSIVE NewerTexts(_, _, _)
NewerTexts(w, t, i) ==
  IF i > Len(w) THEN <<>>
  ELSE (IF w[i].Author.When > t THEN << TextOf(w[i], short) >> ELSE <<>>)
         \o NewerTexts(w, t, i + 1)

IsPrefix(s, r) == Len(s) <= Len(r) /\ \A i \in 1..Len(s) : s[i] = r[i]

\* a commit strictly after t stands behind the first commit that is not
StragglerIn(w, t) == \E i \in 1..Len(w) : i > StopIndex(w, t) /\ w[i].Author.When > t

\* C21: with the clock standing still, when every repository has a head and a
\* walk with non-increasing timestamps that holds a commit not strictly after
\* the threshold, the full walk and the Next loop both return a mapping and the
\* two mappings are equal; and whenever both return a mapping, the full walk's
\* sequence for a directory is every commit after the threshold, the Next
\* loop's sequence is a prefix of it, and the two differ exactly when a commit
\* after the threshold stands behind one that is not, which non-increasing
\* timestamps exclude.
C21_VariantsAgree ==
  (BothDone /\ ticks = 0) =>
    LET t == clock - since
    IN  /\ ( \A d \in Dirs : /\ dirToRepo[d].head
                             /\ NonIncreasing(WalkIn(d))
                             /\ HasOld(WalkIn(d), t) )
           => /\ BothSucceeded
              /\ ret = fret
        /\ BothSucceeded =>
             /\ DOMAIN ret = Dirs
             /\ DOMAIN fret = Dirs
             /\ \A d \in Dirs :
                  /\ fret[d] = NewerTexts(WalkIn(d), t, 1)
                  /\ IsPrefix(ret[d], fret[d])
                  /\ ret[d] # fret[d] <=> StragglerIn(WalkIn(d), t)
                  /\ NonIncreasing(WalkIn(d)) => ret[d] = fret[d]

\* C21 witness: both variants returned the same two messages for a walk with
\* non-increasing timestamps whose third commit is not after the threshold.
C21_Witness ==
  /\ BothSucceeded
  /\ ticks = 0
  /\ \E d \in Dirs :
       /\ NonIncreasing(WalkIn(d))
       /\ Len(WalkIn(d)) = 3
       /\ Len(ret[d]) = 2
       /\ ret[d] = fret[d]

\* C21 witness of the other half: the timestamps are not non-increasing and
\* the full walk returned a commit after the threshold that the Next loop
\* omitted.
C21_DivergenceWitness ==
  /\ BothSucceeded
  /\ ticks = 0
  /\ \E d \in Dirs :
       /\ ~NonIncreasing(WalkIn(d))
       /\ Len(fret[d]) > Len(ret[d])
       /\ IsPrefix(ret[d], fret[d])

====
